---- MODULE Spec2Model ----
(***************************************************************************)
(* ChromaPrint API (src/main.py): the cost estimator, the printer catalog  *)
(* with its seed-on-first-use, the demo login, quote submission and the    *)
(* order list, over a document store that may be absent (db is None).      *)
(*                                                                         *)
(* Numbers.  The code computes in binary doubles on decimal inputs.  The   *)
(* model computes the same expressions exactly, on decimal numbers         *)
(*     [d |-> digits, least significant first, s |-> decimal places]       *)
(* of value (sum of d[i] * 10^(i-1)) / 10^s, kept normalised (no trailing  *)
(* fractional zero, no leading zero), so that equal values are equal       *)
(* records.  round(x, n) is the correctly rounded result, a half going to  *)
(* the even neighbour, which is what Python's round does on the double's   *)
(* exact value.  A double only carries a decimal half exactly when the     *)
(* half is a binary fraction (0.625), otherwise its representation error   *)
(* decides the direction; the estimator's inputs are therefore the         *)
(* requests on which no other half is rounded (RoundsExactly), and on      *)
(* those the exact result is the code's result.                            *)
(***************************************************************************)
EXTENDS Integers, Sequences, FiniteSets, TLC

VARIABLES
    req,           \* estimate_cost: the validated EstimateRequest being served
    resp,          \* estimate_cost: its response, None until it returned
    db_available,  \* database.db is not None
    printer,       \* db["printer"]: the documents, in insertion order
    user,          \* db["user"]: the e-mails that have a record
    quote,         \* db["quote"]: the documents, in insertion order
    pc,            \* list_printers: each in-flight request's position
    items,         \* list_printers: each request's response, None until it returned
    estimates      \* estimate_cost's calls in order: (request, response)

vars == <<req, resp, db_available, printer, user, quote, pc, items, estimates>>

\* Optional[T]: None, or one value.
None == << >>

Some(v) == <<v>>

\* Concurrent GET /api/printers requests.
MaxClients == 2

\* Documents db["quote"] is let to hold.
MaxQuotes == 1

\* POST /api/estimate requests served.
MaxEstimates == 3

Clients == 1..MaxClients

----------------------------------------------------------------------------
\* Decimal arithmetic: what the code's float expressions compute, exactly.

RECURSIVE Digits(_)
\* The digits of a natural number, least significant first (0 has none).
Digits(n) == IF n = 0 THEN << >> ELSE <<n % 10>> \o Digits(n \div 10)

RECURSIVE Value(_)
\* The natural number a digit sequence stands for.
Value(ds) == IF ds = << >> THEN 0 ELSE Head(ds) + 10 * Value(Tail(ds))

RECURSIVE Zeros(_)
Zeros(n) == IF n = 0 THEN << >> ELSE <<0>> \o Zeros(n - 1)

RECURSIVE Trim(_)
\* Without its leading (most significant) zeros.
Trim(ds) ==
    IF ds = << >> THEN << >>
    ELSE IF ds[Len(ds)] = 0 THEN Trim(SubSeq(ds, 1, Len(ds) - 1))
    ELSE ds

RECURSIVE DAdd(_, _, _)
DAdd(a, b, carry) ==
    IF a = << >> /\ b = << >> THEN Digits(carry)
    ELSE LET x == IF a = << >> THEN 0 ELSE Head(a)
             y == IF b = << >> THEN 0 ELSE Head(b)
             t == x + y + carry
         IN  <<t % 10>> \o DAdd(IF a = << >> THEN a ELSE Tail(a),
                                IF b = << >> THEN b ELSE Tail(b), t \div 10)

RECURSIVE DScale(_, _, _)
\* A digit sequence times a natural number below 10^8.
DScale(a, k, carry) ==
    IF a = << >> THEN Digits(carry)
    ELSE LET t == Head(a) * k + carry
         IN  <<t % 10>> \o DScale(Tail(a), k, t \div 10)

RECURSIVE DMul(_, _)
\* The product, eight digits of b at a time.
DMul(a, b) ==
    IF b = << >> \/ a = << >> THEN << >>
    ELSE IF Len(b) <= 8 THEN DScale(a, Value(b), 0)
    ELSE DAdd(DScale(a, Value(SubSeq(b, 1, 8)), 0),
              Zeros(8) \o DMul(a, SubSeq(b, 9, Len(b))), 0)

RECURSIVE LessFrom(_, _, _)
\* a < b, for digit sequences of one length, read from digit n down.
LessFrom(a, b, n) ==
    IF n = 0 THEN FALSE
    ELSE IF a[n] # b[n] THEN a[n] < b[n]
    ELSE LessFrom(a, b, n - 1)

\* a < b, for trimmed digit sequences.
DLess(a, b) ==
    IF Len(a) # Len(b) THEN Len(a) < Len(b) ELSE LessFrom(a, b, Len(a))

RECURSIVE Norm(_)
\* The same value with no trailing fractional zero and no leading zero.
Norm(x) ==
    LET ds == Trim(x.d)
    IN  IF ds = << >> THEN [d |-> << >>, s |-> 0]
        ELSE IF x.s > 0 /\ Head(ds) = 0 THEN Norm([d |-> Tail(ds), s |-> x.s - 1])
        ELSE [d |-> ds, s |-> x.s]

\* The decimal m / 10^s.
Dec(m, s) == Norm([d |-> Digits(m), s |-> s])

\* x's digits at s decimal places, s >= x.s.
At(x, s) == Trim(Zeros(s - x.s) \o x.d)

MaxOf(a, b) == IF a >= b THEN a ELSE b

Add(x, y) ==
    LET s == MaxOf(x.s, y.s)
    IN  Norm([d |-> DAdd(At(x, s), At(y, s), 0), s |-> s])

Mul(x, y) ==
    Norm([d |-> IF Len(x.d) >= Len(y.d) THEN DMul(x.d, y.d) ELSE DMul(y.d, x.d),
          s |-> x.s + y.s])

Less(x, y) ==
    LET s == MaxOf(x.s, y.s)
    IN  DLess(At(x, s), At(y, s))

Leq(x, y) == ~Less(y, x)

\* Python's max(a, b): b only when it is greater.
max(a, b) == IF Less(a, b) THEN b ELSE a

\* Python's min(a, b): b only when it is smaller.
min(a, b) == IF Less(b, a) THEN b ELSE a

\* x / 1000.0
Div1000(x) == Norm([d |-> x.d, s |-> x.s + 3])

Zero == Dec(0, 0)

One == Dec(1, 0)

Eighth == Dec(125, 3)

\* x / 8.0, which is x * 0.125
Div8(x) == Mul(x, Eighth)

\* The digits of x that round(x, ndigits) drops, padded to their full count.
Dropped(x, ndigits) ==
    LET k == x.s - ndigits
    IN  SubSeq(x.d \o Zeros(MaxOf(0, k - Len(x.d))), 1, k)

\* x lies exactly halfway between two decimals of ndigits places.
IsHalf(x, ndigits) ==
    /\ x.s > ndigits
    /\ LET low == Dropped(x, ndigits)
       IN  low[Len(low)] = 5 /\ \A i \in 1..(Len(low) - 1) : low[i] = 0

\* round left out: the value goes out as computed.
round_unrounded(x, ndigits) == x

\* Python's round(x, ndigits) on the exact value: the nearest decimal of
\* ndigits places, a half going to the even one.
round(x, ndigits) ==
    IF x.s <= ndigits THEN x
    ELSE LET k    == x.s - ndigits
             low  == Dropped(x, ndigits)
             high == SubSeq(x.d, k + 1, Len(x.d))
             up   == \/ low[k] > 5
                     \/ low[k] = 5 /\ ~IsHalf(x, ndigits)
                     \/ IsHalf(x, ndigits) /\ high # << >> /\ high[1] % 2 = 1
         IN  Norm([d |-> IF up THEN DAdd(high, <<1>>, 0) ELSE high, s |-> ndigits])

----------------------------------------------------------------------------
\* The estimator's tables and the request model.

MATERIAL_RATE_PER_CM3_INR ==
    "PLA" :> Dec(40, 1) @@ "ABS" :> Dec(50, 1) @@ "Resin" :> Dec(120, 1)
    @@ "Nylon" :> Dec(90, 1) @@ "PETG" :> Dec(60, 1)

FINISH_MULTIPLIER ==
    "Standard" :> Dec(10, 1) @@ "Smooth" :> Dec(115, 2)
    @@ "High-Gloss" :> Dec(13, 1) @@ "Matte" :> Dec(11, 1)

\* The literals of estimate_cost.
MIN_INFILL == Dec(5, 2)

SHELL_FRACTION == Dec(2, 2)

INFILL_FRACTION == Dec(78, 2)

DEFAULT_RATE == Dec(50, 1)

DEFAULT_MULTIPLIER == Dec(10, 1)

MIN_MACHINE_HOURS == Dec(5, 1)

MACHINE_RATE_PER_HOUR == Dec(1200, 1)

PRICE_FLOOR == Dec(1500, 1)

\* dict.get(key, default)
Get(table, key, default) == IF key \in DOMAIN table THEN table[key] ELSE default

\* 1 / x to three places, cut off.
Reciprocal(x) == Dec((10 ^ (x.s + 3)) \div Value(x.d), 3)

\* The bounding box used whatever model volume came with the request.
volume_mm3_bbox_only(r) ==
    LET bbox_mm3 == Mul(Mul(r.length_mm, r.width_mm), r.height_mm)
    IN  Mul(bbox_mm3, Add(SHELL_FRACTION, Mul(INFILL_FRACTION, r.infill)))

\* 0.78 / infill written for 0.78 * infill.
volume_mm3_divided(r) ==
    IF r.model_volume_mm3 # None /\ Less(Zero, r.model_volume_mm3[1])
    THEN Mul(r.model_volume_mm3[1], max(MIN_INFILL, min(One, r.infill)))
    ELSE LET bbox_mm3 == Mul(Mul(r.length_mm, r.width_mm), r.height_mm)
         IN  Mul(bbox_mm3,
                 Add(SHELL_FRACTION, Mul(INFILL_FRACTION, Reciprocal(r.infill))))

\* The volume in mm^3 the estimate is made for.
volume_mm3(r) ==
    IF r.model_volume_mm3 # None /\ Less(Zero, r.model_volume_mm3[1])
    THEN Mul(r.model_volume_mm3[1], max(MIN_INFILL, min(One, r.infill)))
    ELSE LET bbox_mm3 == Mul(Mul(r.length_mm, r.width_mm), r.height_mm)
         IN  Mul(bbox_mm3, Add(SHELL_FRACTION, Mul(INFILL_FRACTION, r.infill)))

\* The finish table's default (1.0) given for the rate's.
material_rate_wrong_default(material) ==
    Get(MATERIAL_RATE_PER_CM3_INR, material, DEFAULT_MULTIPLIER)

\* The rate kept in a variable shared between requests: once a request was
\* served, the next is priced at that one's material.
material_rate_stale(material) ==
    Get(MATERIAL_RATE_PER_CM3_INR,
        IF req # None THEN req[1].material ELSE material, DEFAULT_RATE)

\* MATERIAL_RATE_PER_CM3_INR.get(material, 5.0)
material_rate(material) == Get(MATERIAL_RATE_PER_CM3_INR, material, DEFAULT_RATE)

\* FINISH_MULTIPLIER.get(finish, 1.0)
finish_mult(finish) == Get(FINISH_MULTIPLIER, finish, DEFAULT_MULTIPLIER)

\* The half-hour minimum left out.
machine_time_hours_no_minimum(volume_cm3) == Div8(volume_cm3)

machine_time_hours(volume_cm3) == max(MIN_MACHINE_HOURS, Div8(volume_cm3))

handling == Dec(800, 1)

color_match == Dec(600, 1)

\* The colour-match surcharge left out of the sum.
subtotal_no_color_match(base_cost, machine_cost, complexity) ==
    Mul(Add(Add(base_cost, machine_cost), handling), complexity)

\* The sum divided by the complexity instead of multiplied.
subtotal_divided(base_cost, machine_cost, complexity) ==
    Mul(Add(Add(Add(base_cost, machine_cost), handling), color_match),
        Reciprocal(complexity))

subtotal(base_cost, machine_cost, complexity) ==
    Mul(Add(Add(Add(base_cost, machine_cost), handling), color_match), complexity)

\* The price floor left out.
estimated_cost_no_floor(sub, mult) == Mul(sub, mult)

estimated_cost(sub, mult) == max(PRICE_FLOOR, Mul(sub, mult))

\* estimate_cost's local variables, before any rounding.
Locals(r) ==
    LET volume_cm3   == Div1000(volume_mm3(r))
        rate         == material_rate(r.material)
        mult         == finish_mult(r.finish)
        base_cost    == Mul(volume_cm3, rate)
        hours        == machine_time_hours(volume_cm3)
        machine_cost == Mul(hours, MACHINE_RATE_PER_HOUR)
        sub          == subtotal(base_cost, machine_cost, r.complexity)
    IN  [volume_cm3 |-> volume_cm3, material_rate |-> rate, finish_mult |-> mult,
         base_cost |-> base_cost, machine_time_hours |-> hours,
         machine_cost |-> machine_cost, subtotal |-> sub,
         estimated_cost |-> estimated_cost(sub, mult)]

\* The breakdown dictionary estimate_cost builds from its locals.
breakdown(l, complexity) ==
    [volume_cm3 |-> round(l.volume_cm3, 2),
     material_rate_inr_per_cm3 |-> l.material_rate,
     machine_time_hours |-> round(l.machine_time_hours, 2),
     finish_multiplier |-> l.finish_mult,
     complexity |-> complexity,
     line_items |->
        [material |-> round(l.base_cost, 2),
         machine |-> round(l.machine_cost, 2),
         handling |-> handling,
         skin_tone_color_match |-> color_match]]

\* POST /api/estimate
estimate_cost(r) ==
    LET l == Locals(r)
    IN  [currency |-> "INR",
         estimated_cost |-> round(l.estimated_cost, 2),
         breakdown |-> breakdown(l, r.complexity)]

----------------------------------------------------------------------------
\* The requests the estimator is checked on: what EstimateRequest's
\* validation lets through (dimensions > 0, 0.5 <= complexity <= 2.0,
\* 0.05 <= infill <= 1.0, model_volume_mm3 absent or >= 0, any two strings).

Materials == {"PLA", "ABS", "Resin", "Nylon", "PETG", "Wood"}

Finishes == {"Standard", "Smooth", "High-Gloss", "Matte", "Satin"}

\* length_mm, width_mm, height_mm
Boxes ==
    {<<Dec(1, 0), Dec(1, 0), Dec(1, 0)>>,
     <<Dec(30, 0), Dec(20, 0), Dec(10, 0)>>,
     <<Dec(100, 0), Dec(100, 0), Dec(100, 0)>>}

Complexities == {Dec(5, 1), Dec(1, 0), Dec(1234, 3), Dec(15, 1), Dec(2, 0)}

Infills == {Dec(5, 2), Dec(2, 1), Dec(5, 1), Dec(1, 0)}

ModelVolumes == {None, Some(Dec(0, 0)), Some(Dec(10000, 0))}

MIN_COMPLEXITY == Dec(5, 1)

MAX_COMPLEXITY == Dec(2, 0)

\* EstimateRequest's Field constraints.
Valid(r) ==
    /\ Less(Zero, r.length_mm)
    /\ Less(Zero, r.width_mm)
    /\ Less(Zero, r.height_mm)
    /\ Leq(MIN_COMPLEXITY, r.complexity) /\ Leq(r.complexity, MAX_COMPLEXITY)
    /\ Leq(MIN_INFILL, r.infill) /\ Leq(r.infill, One)
    /\ r.model_volume_mm3 # None => Leq(Zero, r.model_volume_mm3[1])

\* round(x, 2) is decided by x's exact value: x is no half, or a half that
\* is a binary fraction (an eighth), which the double holds exactly.
Eight == Dec(8, 0)

Exact2(x) == IsHalf(x, 2) => Mul(x, Eight).s = 0

\* Every rounding estimate_cost does for r is decided by the exact value.  The
\* final product takes in the complexity and the finish multiplier, which are
\* no binary fractions in general (1.234, 1.15): there every half is left out.
RoundsExactly(r) ==
    LET l == Locals(r)
    IN  /\ Exact2(l.volume_cm3)
        /\ Exact2(l.machine_time_hours)
        /\ Exact2(l.base_cost)
        /\ Exact2(l.machine_cost)
        /\ ~IsHalf(l.estimated_cost, 2)

Requests ==
    {[length_mm |-> b[1], width_mm |-> b[2], height_mm |-> b[3],
      material |-> m, finish |-> f, complexity |-> c, infill |-> i,
      model_volume_mm3 |-> v] :
        b \in Boxes, m \in Materials, f \in Finishes, c \in Complexities,
        i \in Infills, v \in ModelVolumes}

EstimateInputs == {r \in Requests : Valid(r) /\ RoundsExactly(r)}

----------------------------------------------------------------------------
\* The estimator on its own: a request is drawn, estimate_cost answers it.

\* The state outside the estimator, before any request.
InitStore ==
    /\ printer = << >>
    /\ user = {}
    /\ quote = << >>
    /\ pc = [c \in Clients |-> "start"]
    /\ items = [c \in Clients |-> None]
    /\ estimates = << >>

InitEstimate ==
    /\ req \in {Some(r) : r \in EstimateInputs}
    /\ resp = None
    /\ db_available = FALSE
    /\ InitStore

EstimateCall ==
    /\ req # None /\ resp = None
    /\ resp' = Some(estimate_cost(req[1]))
    /\ UNCHANGED <<req, db_available, printer, user, quote, pc, items, estimates>>

NextEstimate == EstimateCall

SpecEstimate == InitEstimate /\ [][NextEstimate]_vars

----------------------------------------------------------------------------
\* The service: every handler of src/main.py over the document store.  A
\* store call (count_documents, insert_many, find, update_one, insert_one) is
\* one step; list_printers makes three of them, between which other requests
\* run.  The store, when there is one, answers every call: no call raises.

DEMO_EMAIL == "ankitmht42@gmail.com"

DEMO_PASSWORD == "Ankitmehta007"

DEMO_TOKEN == "demo-token-123"

\* The catalog's documents, each named by its title.
SAMPLE_PRINTERS ==
    <<"ChromaPrint Pro X1", "ChromaPrint Studio S2", "ChromaPrint Resin R1">>

Emails == {DEMO_EMAIL, "guest@example.com"}

Passwords == {DEMO_PASSWORD, "letmein"}

\* The X-Demo-Token header: absent, the token, or something else.
Tokens == {None, Some(DEMO_TOKEN), Some("stale-token")}

ScenarioA ==
    [length_mm |-> Dec(100, 0), width_mm |-> Dec(100, 0), height_mm |-> Dec(100, 0),
     material |-> "PLA", finish |-> "Standard", complexity |-> Dec(1, 0),
     infill |-> Dec(2, 1), model_volume_mm3 |-> None]

ScenarioB ==
    [length_mm |-> Dec(1, 0), width_mm |-> Dec(1, 0), height_mm |-> Dec(1, 0),
     material |-> "Resin", finish |-> "High-Gloss", complexity |-> Dec(15, 1),
     infill |-> Dec(5, 1), model_volume_mm3 |-> Some(Dec(10000, 0))]

ScenarioC ==
    [length_mm |-> Dec(1, 0), width_mm |-> Dec(1, 0), height_mm |-> Dec(1, 0),
     material |-> "PLA", finish |-> "Standard", complexity |-> Dec(5, 1),
     infill |-> Dec(5, 2), model_volume_mm3 |-> None]

\* The estimate requests the service is sent.
SampleRequests == {ScenarioA, ScenarioB}

Init ==
    /\ req = None
    /\ resp = None
    /\ db_available \in BOOLEAN
    /\ InitStore

\* POST /api/auth/login: with the demo credentials, the demo user's record is
\* upserted ($setOnInsert) and the token returned; otherwise 401.
login(email, password) ==
    /\ user' = IF email = DEMO_EMAIL /\ password = DEMO_PASSWORD /\ db_available
               THEN user \cup {DEMO_EMAIL}
               ELSE user
    /\ UNCHANGED <<req, resp, db_available, printer, quote, pc, items, estimates>>

\* GET /api/printers, to its count_documents call.
list_printers_count(c) ==
    /\ pc[c] = "start"
    /\ IF ~db_available
       THEN /\ items' = [items EXCEPT ![c] = Some(SAMPLE_PRINTERS)]
            /\ pc' = [pc EXCEPT ![c] = "done"]
       ELSE /\ items' = items
            /\ pc' = [pc EXCEPT ![c] = IF Len(printer) = 0 THEN "seed" ELSE "find"]
    /\ UNCHANGED <<req, resp, db_available, printer, user, quote, estimates>>

\* GET /api/printers: the collection was counted empty, insert_many.
list_printers_seed(c) ==
    /\ pc[c] = "seed"
    /\ printer' = printer \o SAMPLE_PRINTERS
    /\ pc' = [pc EXCEPT ![c] = "find"]
    /\ UNCHANGED <<req, resp, db_available, user, quote, items, estimates>>

\* GET /api/printers: find, and the response.
list_printers_find(c) ==
    /\ pc[c] = "find"
    /\ items' = [items EXCEPT ![c] = Some(printer)]
    /\ pc' = [pc EXCEPT ![c] = "done"]
    /\ UNCHANGED <<req, resp, db_available, printer, user, quote, estimates>>

\* POST /api/estimate, served in one step: it reads its request alone.
estimate(r) ==
    /\ Len(estimates) < MaxEstimates
    /\ LET out == estimate_cost(r)
       IN  /\ req' = Some(r)
           /\ resp' = Some(out)
           /\ estimates' = Append(estimates, <<r, out>>)
    /\ UNCHANGED <<db_available, printer, user, quote, pc, items>>

\* POST /api/quote: 401 without the demo token; else the quote is stored
\* (create_document), or only acknowledged when there is no store.
submit_quote(email, x_demo_token) ==
    /\ IF x_demo_token = Some(DEMO_TOKEN) /\ db_available
       THEN /\ Len(quote) < MaxQuotes
            /\ quote' = Append(quote, [email |-> email, status |-> "submitted"])
       ELSE quote' = quote
    /\ UNCHANGED <<req, resp, db_available, printer, user, pc, items, estimates>>

\* GET /api/account/orders: a read of db["quote"], which changes nothing.
list_orders(email) ==
    /\ LET docs == IF db_available
                   THEN SelectSeq(quote, LAMBDA q : q.email = email)
                   ELSE << >>
       IN  Len(docs) <= Len(quote)
    /\ UNCHANGED vars

Next ==
    \/ \E email \in Emails, password \in Passwords : login(email, password)
    \/ \E c \in Clients : list_printers_count(c)
    \/ \E c \in Clients : list_printers_seed(c)
    \/ \E c \in Clients : list_printers_find(c)
    \/ \E r \in SampleRequests : estimate(r)
    \/ \E email \in Emails, x_demo_token \in Tokens : submit_quote(email, x_demo_token)
    \/ \E email \in Emails : list_orders(email)

Spec == Init /\ [][Next]_vars

----------------------------------------------------------------------------
\* Properties of the estimator, under SpecEstimate.

\* estimate_cost has answered the request drawn.
Answered == req # None /\ resp # None

In == req[1]

Out == resp[1]

\* The rate table as the specification gives it.
TableRate(material) ==
    CASE material = "PLA" -> Dec(4, 0)
      [] material = "ABS" -> Dec(5, 0)
      [] material = "Resin" -> Dec(12, 0)
      [] material = "Nylon" -> Dec(9, 0)
      [] material = "PETG" -> Dec(6, 0)
      [] OTHER -> Dec(5, 0)

\* The finish table as the specification gives it.
TableMultiplier(finish) ==
    CASE finish = "Standard" -> Dec(1, 0)
      [] finish = "Smooth" -> Dec(115, 2)
      [] finish = "High-Gloss" -> Dec(13, 1)
      [] finish = "Matte" -> Dec(11, 1)
      [] OTHER -> Dec(1, 0)

\* A model volume is used when one is given and is positive.
UsesModelVolume(r) ==
    r.model_volume_mm3 # None /\ Less(Dec(0, 0), r.model_volume_mm3[1])

\* V: the derived volume in cm3.
DerivedVolume(r) ==
    IF UsesModelVolume(r)
    THEN Div1000(Mul(r.model_volume_mm3[1], r.infill))
    ELSE Div1000(Mul(Mul(Mul(r.length_mm, r.width_mm), r.height_mm),
                     Add(Dec(2, 2), Mul(Dec(78, 2), r.infill))))

\* max(150.0, (V*rate + max(0.5, V/8.0)*120.0 + 80.0 + 60.0) * complexity *
\* finish_multiplier), rounded to 2 decimals.
FormulaCost(r) ==
    LET V    == DerivedVolume(r)
        sum  == Add(Add(Add(Mul(V, TableRate(r.material)),
                            Mul(max(Dec(5, 1), Div8(V)), Dec(120, 0))),
                        Dec(80, 0)), Dec(60, 0))
    IN  round(max(Dec(150, 0),
                  Mul(Mul(sum, r.complexity), TableMultiplier(r.finish))), 2)

\* C1: the estimated cost is max(150, (V*rate + max(0.5, V/8)*120 + 80 + 60)
\* * complexity * finish_multiplier) rounded to 2 decimals, V being the model
\* volume times infill / 1000 when a model volume is used and the bounding box
\* times (0.02 + 0.78*infill) / 1000 otherwise; Scenario A costs 3484.0 and
\* Scenario B 536.25.
C1_EstimateFormula ==
    Answered =>
        /\ Out.estimated_cost = FormulaCost(In)
        /\ In = ScenarioA => Out.estimated_cost = Dec(3484, 0)
        /\ In = ScenarioB => Out.estimated_cost = Dec(53625, 2)

C1_Witness ==
    /\ Answered
    /\ In = ScenarioB
    /\ UsesModelVolume(In)
    /\ Out.estimated_cost = Dec(53625, 2)

\* C2: the estimated cost of a valid request is never below 150.0, and the
\* 1x1x1 PLA/Standard request of complexity 0.5 and infill 0.05 costs 150.0.
C2_PriceFloor ==
    Answered =>
        /\ Leq(Dec(150, 0), Out.estimated_cost)
        /\ In = ScenarioC => Out.estimated_cost = Dec(150, 0)

C2_Witness ==
    /\ Answered
    /\ In = ScenarioC
    /\ Less(Mul(Locals(In).subtotal, Locals(In).finish_mult), Dec(150, 0))
    /\ Out.estimated_cost = Dec(150, 0)

\* C3: a material outside the table is priced and reported at rate 5.0, a
\* finish outside the table at multiplier 1.0, a known one at its table value,
\* and the response is a normal one: the material line is the volume at that
\* rate and the estimated cost the subtotal at that multiplier.
C3_TableLookup ==
    Answered =>
        /\ Out.currency = "INR"
        /\ Out.breakdown.material_rate_inr_per_cm3 = TableRate(In.material)
        /\ Out.breakdown.finish_multiplier = TableMultiplier(In.finish)
        /\ Out.breakdown.line_items.material
               = round(Mul(DerivedVolume(In), TableRate(In.material)), 2)
        /\ Out.estimated_cost
               = round(max(Dec(150, 0),
                           Mul(Locals(In).subtotal, TableMultiplier(In.finish))), 2)

C3_Witness ==
    /\ Answered
    /\ In.material \notin DOMAIN MATERIAL_RATE_PER_CM3_INR
    /\ In.finish \notin DOMAIN FINISH_MULTIPLIER
    /\ Out.breakdown.material_rate_inr_per_cm3 = Dec(5, 0)
    /\ Out.breakdown.finish_multiplier = Dec(1, 0)

\* The request r with another bounding box.
Reboxed(r, b) == [r EXCEPT !.length_mm = b[1], !.width_mm = b[2], !.height_mm = b[3]]

\* C4, as claimed: whenever model_volume_mm3 is present (any value >= 0), a
\* request that differs only in its bounding box gets the same response.
C4_AnyModelVolumeOverrides ==
    (Answered /\ In.model_volume_mm3 # None) =>
        \A b \in Boxes :
            Reboxed(In, b) \in EstimateInputs => estimate_cost(Reboxed(In, b)) = Out

\* C4, amended: whenever model_volume_mm3 is present and positive, a request
\* that differs only in its bounding box gets the same response.
C4_PositiveModelVolumeOverrides ==
    (Answered /\ UsesModelVolume(In)) =>
        \A b \in Boxes :
            Reboxed(In, b) \in EstimateInputs => estimate_cost(Reboxed(In, b)) = Out

C4_Witness ==
    /\ Answered
    /\ UsesModelVolume(In)
    /\ \E b \in Boxes :
          /\ Reboxed(In, b) # In
          /\ Reboxed(In, b) \in EstimateInputs
          /\ estimate_cost(Reboxed(In, b)) = Out

\* C5: the estimated cost does not decrease when only the complexity grows.
C5_MonotoneInComplexity ==
    Answered =>
        \A c \in Complexities :
            LET other == [In EXCEPT !.complexity = c]
            IN  (other \in EstimateInputs /\ Leq(In.complexity, c))
                    => Leq(Out.estimated_cost, estimate_cost(other).estimated_cost)

C5_Witness ==
    /\ Answered
    /\ In = ScenarioA
    /\ LET other == [In EXCEPT !.complexity = Dec(2, 0)]
       IN  /\ other \in EstimateInputs
           /\ Less(Out.estimated_cost, estimate_cost(other).estimated_cost)

\* C6: with no model volume, the estimated cost does not decrease when only
\* the infill grows.
C6_MonotoneInInfill ==
    (Answered /\ In.model_volume_mm3 = None) =>
        \A i \in Infills :
            LET other == [In EXCEPT !.infill = i]
            IN  (other \in EstimateInputs /\ Leq(In.infill, i))
                    => Leq(Out.estimated_cost, estimate_cost(other).estimated_cost)

C6_Witness ==
    /\ Answered
    /\ In = ScenarioA
    /\ LET other == [In EXCEPT !.infill = Dec(1, 0)]
       IN  /\ other \in EstimateInputs
           /\ Less(Out.estimated_cost, estimate_cost(other).estimated_cost)

\* The numbers of a response that estimate_cost computes or takes from its tables.
ComputedNumbers(out) ==
    {out.estimated_cost,
     out.breakdown.volume_cm3,
     out.breakdown.material_rate_inr_per_cm3,
     out.breakdown.machine_time_hours,
     out.breakdown.finish_multiplier,
     out.breakdown.line_items.material,
     out.breakdown.line_items.machine,
     out.breakdown.line_items.handling,
     out.breakdown.line_items.skin_tone_color_match}

\* C7, as claimed: every number of the response, the complexity included, has
\* at most 2 decimal places.
C7_AllNumbersTwoPlaces ==
    Answered => \A x \in ComputedNumbers(Out) \cup {Out.breakdown.complexity} : x.s <= 2

\* C7, amended: every number of the response other than the complexity has at
\* most 2 decimal places; the complexity is reported as it was given.
C7_ComputedNumbersTwoPlaces ==
    Answered =>
        /\ \A x \in ComputedNumbers(Out) : x.s <= 2
        /\ Out.breakdown.complexity = In.complexity

C7_Witness ==
    /\ Answered
    /\ In.complexity.s > 2
    /\ Locals(In).estimated_cost.s > 2
    /\ Locals(In).volume_cm3.s > 2
    /\ \A x \in ComputedNumbers(Out) : x.s <= 2

\* C9: the machine time priced and reported is never below 0.5 hours, and the
\* machine line never below 60.0.  (A validated request never derives a zero
\* volume; the smallest ones report volume_cm3 0.0.)
C9_MachineMinimum ==
    Answered =>
        /\ Leq(Dec(5, 1), Locals(In).machine_time_hours)
        /\ Leq(Dec(5, 1), Out.breakdown.machine_time_hours)
        /\ Leq(Dec(60, 0), Out.breakdown.line_items.machine)

C9_Witness ==
    /\ Answered
    /\ Out.breakdown.volume_cm3 = Dec(0, 0)
    /\ Less(Div8(DerivedVolume(In)), Dec(5, 1))
    /\ Out.breakdown.machine_time_hours = Dec(5, 1)
    /\ Out.breakdown.line_items.machine = Dec(60, 0)

----------------------------------------------------------------------------
\* Properties of the service, under Spec.

C10_SeededOnce ==
    /\ \A i, j \in 1..Len(printer) : printer[i] = printer[j] => i = j
    /\ \A c \in Clients : items[c] # None => items[c][1] = SAMPLE_PRINTERS

====
